---- MODULE Spec2Model ----
(***************************************************************************)
(* Model of src/app.py, the Streamlit dashboard over the merged bank and   *)
(* bureau data.  Streamlit runs the whole script top to bottom once when   *)
(* the session starts and once more after every change of a sidebar        *)
(* selectbox; the only state that survives a run is the st.cache_data      *)
(* entry of load_data and the widgets' current values.  One action of the  *)
(* model is one such run of the script.                                    *)
(*                                                                         *)
(* Numbers: a mean is kept as an exact fraction [num, den] in lowest terms,*)
(* and 0/0 (the mean of no rows, pandas' NaN) is the fraction NaN.         *)
(* utilization_ratio is counted in tenths.  A correlation rounded to   *)
(* two decimals is the fraction hundredths/100.                            *)
(***************************************************************************)
EXTENDS Integers, Sequences, FiniteSets, TLC

VARIABLES
    file,                \* rows of merged_bank_bureau_data.csv (never written)
    cache,               \* the st.cache_data entry of load_data
    reads,               \* how many times pd.read_csv has run
    rendered,            \* whether the script has run at least once
    df,                  \* the script's df after lines 13-17
    metrics,             \* the four st.metric values of lines 22-31
    region,              \* value of the Region selectbox
    employment,          \* value of the Employment Type selectbox
    risk,                \* value of the Risk Grade selectbox
    region_options,      \* options offered by the Region selectbox
    employment_options,  \* options offered by the Employment Type selectbox
    risk_options,        \* options offered by the Risk Grade selectbox
    filtered_df,         \* the script's filtered_df after lines 42-53
    fraud_by_channel,    \* line 112
    fraud_by_device,     \* line 119
    corr,                \* line 176
    charts               \* the figures handed to st.plotly_chart, in order

vars == <<file, cache, reads, rendered, df, metrics, region, employment, risk,
          region_options, employment_options, risk_options, filtered_df,
          fraud_by_channel, fraud_by_device, corr, charts>>

\* Largest number of data rows of the csv file the model explores.
MaxRows == 3

\* The same, for the families of files that vary more columns per row.
MaxRowsWide == 2

\* The selectbox entry that stands for "no restriction".
All == "All"

\* A missing cell of a text column (pandas reads it as NaN).
Null == "<NA>"

\* The text values of the model in Python's string order, which sorted() uses.
SortOrder == <<"A", "B", "Branch", "Desktop", "Mobile", "North", "Online",
               "Salaried", "Self-Employed", "South">>

Rank(s) == CHOOSE i \in DOMAIN SortOrder : SortOrder[i] = s

\* application_id values, by row position in the file.
AppIds == <<"APP1", "APP2", "APP3", "APP4", "APP5">>

Range(s) == {s[i] : i \in DOMAIN s}

(***************************************************************************)
(* Exact fractions.                                                        *)
(***************************************************************************)
Abs(x) == IF x < 0 THEN -x ELSE x

RECURSIVE GCD(_, _)
GCD(a, b) == IF b = 0 THEN a ELSE GCD(b, a % b)

NaN == [num |-> 0, den |-> 0]

\* n / d in lowest terms with a positive denominator; x / 0 is NaN.
Frac(n, d) ==
    IF d = 0 THEN NaN
    ELSE LET g == GCD(Abs(n), Abs(d))
             s == IF d < 0 THEN -1 ELSE 1
         IN  [num |-> (s * n) \div g, den |-> (s * d) \div g]

IsNaN(q) == q.den = 0

RECURSIVE Sum(_)
Sum(xs) == IF xs = <<>> THEN 0 ELSE Head(xs) + Sum(Tail(xs))

\* Series[field]: one column of a frame.
RECURSIVE Column(_, _)
Column(d, field) ==
    IF d = <<>> THEN <<>> ELSE <<Head(d)[field]>> \o Column(Tail(d), field)

\* Series.mean() of a numeric column without missing values: sum / count.
Mean(xs) == Frac(Sum(xs), Len(xs))

(***************************************************************************)
(* pandas and Python helpers the script calls.                             *)
(***************************************************************************)
\* Series.dropna(): the non-missing cells, in order.
DropNa(xs) == SelectSeq(xs, LAMBDA x : x # Null)

\* Series.unique(): the distinct cells in order of first appearance.
AppendIfNew(r, x) == IF x \in Range(r) THEN r ELSE Append(r, x)

RECURSIVE Unique(_)
Unique(xs) ==
    IF xs = <<>> THEN <<>>
    ELSE AppendIfNew(Unique(SubSeq(xs, 1, Len(xs) - 1)), xs[Len(xs)])

InsertAt(x, s, k) == SubSeq(s, 1, k) \o <<x>> \o SubSeq(s, k + 1, Len(s))

\* x put into the sorted list s, after the elements that are not above it.
Insert(x, s) ==
    InsertAt(x, s, Cardinality({i \in DOMAIN s : Rank(s[i]) <= Rank(x)}))

\* Python's sorted() on a list of strings.
RECURSIVE sorted(_)
sorted(xs) == IF xs = <<>> THEN <<>> ELSE Insert(Head(xs), sorted(Tail(xs)))

(***************************************************************************)
(* Lines 15-17 and 51-53: the label columns.  Series.map with a dict sends *)
(* a value that is no key of the dict to a missing cell.                   *)
(***************************************************************************)
target_label(t) ==
    CASE t = 0 -> "Approved"
      [] t = 1 -> "Rejected/Default"
      [] OTHER -> Null

delinquency_label(f) ==
    CASE f = 0 -> "No"
      [] f = 1 -> "Yes"
      [] OTHER -> Null

\* frame[col] = value on every row: the column is added, or overwritten.
SetLabels(row, tl, dl) ==
    [target_label |-> tl, delinquency_label |-> dl] @@ row

\* Lines 16-17, on df.
RECURSIVE LabelDf(_)
LabelDf(d) ==
    IF d = <<>> THEN <<>>
    ELSE <<SetLabels(Head(d), target_label(Head(d).target),
                     delinquency_label(Head(d).recent_delinquency_flag))>>
         \o LabelDf(Tail(d))

\* Lines 52-53 with the two flag columns mixed up.
RECURSIVE LabelFilteredMixed(_)
LabelFilteredMixed(d) ==
    IF d = <<>> THEN <<>>
    ELSE <<SetLabels(Head(d), target_label(Head(d).recent_delinquency_flag),
                     delinquency_label(Head(d).target))>>
         \o LabelFilteredMixed(Tail(d))

\* Lines 52-53, on filtered_df.
RECURSIVE LabelFiltered(_)
LabelFiltered(d) ==
    IF d = <<>> THEN <<>>
    ELSE <<SetLabels(Head(d), target_label(Head(d).target),
                     delinquency_label(Head(d).recent_delinquency_flag))>>
         \o LabelFiltered(Tail(d))

(***************************************************************************)
(* Lines 7-13: load_data under @st.cache_data.  The decorator keys the     *)
(* entry on the (argument-free) call, stores the returned frame and hands  *)
(* every caller its own copy, so the script never holds the stored frame.  *)
(***************************************************************************)
NotCached == [loaded |-> FALSE, value |-> <<>>]

\* load_data without the decorator: every call reads the file.
NeverCached == FALSE

CacheHit == cache.loaded

\* The frame load_data() returns in this run.
load_data == IF CacheHit THEN cache.value ELSE file

\* A cache that hands out the stored frame itself (as st.cache_resource
\* does): lines 16-17 then write the label columns into the stored frame.
CacheSharesFrame ==
    IF CacheHit THEN cache ELSE [loaded |-> TRUE, value |-> LabelDf(file)]

\* The cache entry after the call.
CacheAfterLoad == IF CacheHit THEN cache ELSE [loaded |-> TRUE, value |-> file]

\* pd.read_csv runs only on a miss.
ReadsAfterLoad == IF CacheHit THEN reads ELSE reads + 1

(***************************************************************************)
(* Lines 22-31: the KPI row.  The values are those handed to the format    *)
(* strings; line 25 shows 100 * (1 - mean), line 27 shows 100 * mean.      *)
(***************************************************************************)
OneMinus(q) == IF IsNaN(q) THEN NaN ELSE Frac(q.den - q.num, q.den)

KpiMetrics(d) ==
    [approval_rate   |-> OneMinus(Mean(Column(d, "target"))),
     fraud_rate      |-> Mean(Column(d, "fraud_flag")),
     avg_income      |-> Mean(Column(d, "monthly_income")),
     avg_utilization |-> Mean(Column(d, "utilization_ratio"))]

(***************************************************************************)
(* Lines 36-40: the options of a selectbox.                                *)
(***************************************************************************)
\* The options without sorted(): in order of first appearance.
OptionsUnsorted(d, field) == <<All>> \o Unique(DropNa(Column(d, field)))

\* The Region selectbox filled from the employment_type column.
OptionsWrongColumn(d, field) ==
    <<All>> \o sorted(Unique(DropNa(Column(d,
                IF field = "region" THEN "employment_type" ELSE field))))

Options(d, field) == <<All>> \o sorted(Unique(DropNa(Column(d, field))))

(***************************************************************************)
(* Lines 42-49: the filters.  A comparison with a missing cell is False.   *)
(***************************************************************************)
\* Line 49 filtering df again instead of filtered_df.
ApplyFiltersFromDf(d, r, e, k) ==
    LET f0 == d
        f1 == IF r # All THEN SelectSeq(f0, LAMBDA row : row.region = r) ELSE f0
        f2 == IF e # All
              THEN SelectSeq(f1, LAMBDA row : row.employment_type = e) ELSE f1
        f3 == IF k # All
              THEN SelectSeq(d, LAMBDA row : row.risk_grade = k) ELSE f2
    IN  f3

ApplyFilters(d, r, e, k) ==
    LET f0 == d
        f1 == IF r # All THEN SelectSeq(f0, LAMBDA row : row.region = r) ELSE f0
        f2 == IF e # All
              THEN SelectSeq(f1, LAMBDA row : row.employment_type = e) ELSE f1
        f3 == IF k # All
              THEN SelectSeq(f2, LAMBDA row : row.risk_grade = k) ELSE f2
    IN  f3

(***************************************************************************)
(* Lines 112 and 119: frame.groupby(by)[col].mean().reset_index().  The    *)
(* group keys are the observed non-missing values, sorted.                 *)
(***************************************************************************)
\* groupby(by, sort=False): the keys in order of first appearance.
GroupKeysUnsorted(d, by) == Unique(DropNa(Column(d, by)))

GroupKeys(d, by) == sorted(Unique(DropNa(Column(d, by))))

\* One output row per key, in the order of keys.
RECURSIVE GroupRowsOf(_, _, _, _)
GroupRowsOf(d, by, col, keys) ==
    IF keys = <<>> THEN <<>>
    ELSE <<[key  |-> Head(keys),
            rate |-> Mean(Column(SelectSeq(d, LAMBDA row : row[by] = Head(keys)),
                                 col))]>>
         \o GroupRowsOf(d, by, col, Tail(keys))

GroupMean(d, by, col) == GroupRowsOf(d, by, col, GroupKeys(d, by))

(***************************************************************************)
(* Lines 175-176: select_dtypes(float64, int64).corr().round(2).           *)
(* pandas' nancorr walks the pairs xi <= yi, stores each result at         *)
(* [xi, yi] and [yi, xi], and stores NaN when there is no row or when the  *)
(* divisor sqrt(ssqdx) * sqrt(ssqdy) is 0.                                 *)
(***************************************************************************)
\* The numeric columns of the frame, in column order.
NumericFields == <<"target", "fraud_flag", "recent_delinquency_flag",
                   "monthly_income", "utilization_ratio">>

FieldIndex(f) == CHOOSE i \in DOMAIN NumericFields : NumericFields[i] = f

\* The first n numeric columns of the frame.
RECURSIVE NumericColumns(_, _)
NumericColumns(d, n) ==
    IF n = 0 THEN <<>>
    ELSE Append(NumericColumns(d, n - 1), Column(d, NumericFields[n]))

RECURSIVE Products(_, _)
Products(xs, ys) ==
    IF xs = <<>> THEN <<>>
    ELSE <<Head(xs) * Head(ys)>> \o Products(Tail(xs), Tail(ys))

\* n times the sum of co-deviations of two columns (n * n * covariance),
\* given the columns' sums sx and sy.
CoDev(xs, ys, sx, sy) == Len(xs) * Sum(Products(xs, ys)) - sx * sy

\* The sums of the columns, and their n * n * variance.
RECURSIVE ColumnSums(_)
ColumnSums(cols) ==
    IF cols = <<>> THEN <<>> ELSE <<Sum(Head(cols))>> \o ColumnSums(Tail(cols))

RECURSIVE ColumnDevs(_, _)
ColumnDevs(cols, sums) ==
    IF cols = <<>> THEN <<>>
    ELSE <<CoDev(Head(cols), Head(cols), Head(sums), Head(sums))>>
         \o ColumnDevs(Tail(cols), Tail(sums))

\* The largest h in lo..hi with (h - 1/2) / 100 <= sqrt(q), by bisection;
\* lo itself is known to qualify.
RECURSIVE LargestBelow(_, _, _)
LargestBelow(lo, hi, q) ==
    IF lo = hi THEN lo
    ELSE LET mid == (lo + hi + 1) \div 2
         IN  IF (2 * mid - 1) * (2 * mid - 1) * q.den <= 40000 * q.num
             THEN LargestBelow(mid, hi, q)
             ELSE LargestBelow(lo, mid - 1, q)

\* round(a / sqrt(dd), 2) in hundredths, for 0 <= a * a <= dd: the nearest
\* hundredth, and on an exact tie the even one, as numpy rounds.
\* h, or on an exact tie between h - 1 and h the even one of the two.
HalfToEven(h, q) ==
    IF h > 0 /\ h % 2 = 1 /\ (2 * h - 1) * (2 * h - 1) * q.den = 40000 * q.num
    THEN h - 1 ELSE h

RoundSqrt(q) == HalfToEven(LargestBelow(0, 100, q), q)

RoundHundredths(a, dd) == RoundSqrt(Frac(a * a, dd))

\* sxy / sqrt(ssx * ssy), rounded to two decimals.
Ratio(sxy, ssx, ssy) ==
    IF sxy < 0 THEN Frac(-RoundHundredths(-sxy, ssx * ssy), 100)
    ELSE Frac(RoundHundredths(sxy, ssx * ssy), 100)

\* Pearson's r without the guard against a zero divisor.
PearsonNoGuard(st, i, j) ==
    Ratio(CoDev(st.cols[i], st.cols[j], st.sums[i], st.sums[j]),
          st.devs[i], st.devs[j])

\* Pearson's r of columns i and j, rounded to two decimals.  st holds the
\* columns, their sums and their deviations.
Pearson(st, i, j) ==
    IF Len(st.cols[i]) = 0 \/ st.devs[i] = 0 \/ st.devs[j] = 0 THEN NaN
    ELSE Ratio(CoDev(st.cols[i], st.cols[j], st.sums[i], st.sums[j]),
               st.devs[i], st.devs[j])

\* Row i of the matrix, entries 1..j: an entry left of the diagonal is the
\* one an earlier row stored, the others are computed.
RECURSIVE CorrRow(_, _, _, _)
CorrRow(st, above, i, j) ==
    IF j = 0 THEN <<>>
    ELSE Append(CorrRow(st, above, i, j - 1),
                IF j < i THEN above[j][i] ELSE Pearson(st, i, j))

AddCorrRow(st, above, i) == Append(above, CorrRow(st, above, i, Len(st.cols)))

\* Rows 1..i of the matrix.
RECURSIVE CorrRows(_, _)
CorrRows(st, i) ==
    IF i = 0 THEN <<>> ELSE AddCorrRow(st, CorrRows(st, i - 1), i)

StatsOf(cols, sums) ==
    [cols |-> cols, sums |-> sums, devs |-> ColumnDevs(cols, sums)]

SumsOf(cols) == StatsOf(cols, ColumnSums(cols))

ColumnStats(d) == SumsOf(NumericColumns(d, Len(NumericFields)))

\* The matrix m as a frame: indexed by column name on both axes.
ByName(m) ==
    [x \in Range(NumericFields) |->
        [y \in Range(NumericFields) |-> m[FieldIndex(x)][FieldIndex(y)]]]

Corr(d) == ByName(CorrRows(ColumnStats(d), Len(NumericFields)))

(***************************************************************************)
(* Lines 67-188: the figures, in the order they reach st.plotly_chart, by  *)
(* kind and title (the heatmap by its subheader).  rows is the number of   *)
(* rows of the frame the figure is drawn from.                             *)
(***************************************************************************)
Fig(kind, title, rows) == [kind |-> kind, title |-> title, rows |-> rows]

Charts(f, byChannel, byDevice, c) ==
    << Fig("histogram", "Target Distribution by Risk Grade", Len(f)),
       Fig("histogram", "Approval by Gender", Len(f)),
       Fig("histogram", "Approval by Marital Status", Len(f)),
       Fig("scatter", "Utilization vs On-Time Payment History", Len(f)),
       Fig("bar", "Fraud Rate by Application Channel", Len(byChannel)),
       Fig("bar", "Fraud Rate by Device Type", Len(byDevice)),
       Fig("histogram", "Target by Application Channel", Len(f)),
       Fig("box", "Income by Employment Type", Len(f)),
       Fig("histogram", "Defaults vs Recent Delinquency", Len(f)),
       Fig("histogram", "Delinquency Flag by Risk Grade", Len(f)),
       Fig("histogram", "Applications by Region", Len(f)),
       Fig("heatmap", "Correlation Heatmap", Cardinality(DOMAIN c)) >>

(***************************************************************************)
(* One run of the script with the selectboxes returning r, e and k.        *)
(***************************************************************************)
Script(r, e, k) ==
    /\ cache' = CacheAfterLoad                                \* lines 8-11
    /\ reads' = ReadsAfterLoad                                \* line 10
    /\ df' = LabelDf(load_data)                               \* lines 13-17
    /\ metrics' = KpiMetrics(df')                             \* lines 23-31
    /\ region_options' = Options(df', "region")               \* line 38
    /\ employment_options' = Options(df', "employment_type")  \* line 39
    /\ risk_options' = Options(df', "risk_grade")             \* line 40
    /\ region' = r
    /\ employment' = e
    /\ risk' = k
    /\ filtered_df' = LabelFiltered(ApplyFilters(df', r, e, k))  \* lines 43-53
    /\ fraud_by_channel' =                                    \* line 112
          GroupMean(filtered_df', "application_channel", "fraud_flag")
    /\ fraud_by_device' =                                     \* line 119
          GroupMean(filtered_df', "device_type", "fraud_flag")
    /\ corr' = Corr(filtered_df')                             \* lines 175-176
    /\ charts' = Charts(filtered_df', fraud_by_channel', fraud_by_device', corr')
    /\ rendered' = TRUE
    /\ UNCHANGED file

\* The session opens: every selectbox shows its first option.
FirstRun ==
    /\ ~rendered
    /\ Script(All, All, All)

\* The widgets by the variable their value is assigned to.
Widgets == {"region", "employment", "risk"}

Value(w) ==
    CASE w = "region" -> region
      [] w = "employment" -> employment
      [] w = "risk" -> risk

Offered(w) ==
    CASE w = "region" -> region_options
      [] w = "employment" -> employment_options
      [] w = "risk" -> risk_options

\* The user picks another option v of selectbox w; Streamlit reruns the
\* script, and every selectbox returns its current value.
Select(w, v) ==
    /\ rendered
    /\ v \in Range(Offered(w))
    /\ v # Value(w)
    /\ Script(IF w = "region" THEN v ELSE region,
              IF w = "employment" THEN v ELSE employment,
              IF w = "risk" THEN v ELSE risk)

Choices == Range(SortOrder) \cup {All}

Next ==
    \/ FirstRun
    \/ \E w \in Widgets, v \in Choices : Select(w, v)

(***************************************************************************)
(* The csv files explored.  Every file has the same columns; a family      *)
(* varies some of them over small sets and keeps the others at BaseRow,    *)
(* where the text cells are missing.                                       *)
(***************************************************************************)
BaseRow ==
    [region |-> Null, employment_type |-> Null, risk_grade |-> Null,
     application_channel |-> Null, device_type |-> Null,
     target |-> 0, fraud_flag |-> 0, recent_delinquency_flag |-> 0,
     monthly_income |-> 1, utilization_ratio |-> 5]

\* The files of at most n rows drawn from rows, application_id added.
Files(rows, n) ==
    LET bodies == UNION {[1..m -> rows] : m \in 0..n}
    IN  {[i \in DOMAIN b |-> [application_id |-> AppIds[i]] @@ b[i]] : b \in bodies}

FilterRows ==
    {[BaseRow EXCEPT !.region = r, !.employment_type = e, !.risk_grade = k] :
        r \in {Null, "North", "South"},
        e \in {"Salaried", "Self-Employed"},
        k \in {"A", "B"}}

MetricRows ==
    {[BaseRow EXCEPT !.region = r, !.risk_grade = k, !.target = t,
                     !.fraud_flag = f, !.monthly_income = m,
                     !.utilization_ratio = 5 * m] :
        r \in {"North", "South"}, k \in {"A", "B"},
        t \in {0, 1}, f \in {0, 1}, m \in {1, 2}}

LabelRows ==
    {[BaseRow EXCEPT !.region = r, !.target = t, !.recent_delinquency_flag = q] :
        r \in {"North", "South"}, t \in {0, 1}, q \in {0, 1}}

ChannelDevice ==
    {<<Null, "Desktop">>, <<"Branch", Null>>, <<"Online", "Mobile">>}

GroupFileRows ==
    {[BaseRow EXCEPT !.region = r, !.application_channel = cd[1],
                     !.device_type = cd[2], !.fraud_flag = f] :
        r \in {"North", "South"}, cd \in ChannelDevice, f \in {0, 1}}

CorrFileRows ==
    {[BaseRow EXCEPT !.region = r, !.target = t, !.monthly_income = m] :
        r \in {"North", "South"}, t \in {0, 1}, m \in {1, 2, 3}}

InitWith(files) ==
    /\ file \in files
    /\ cache = NotCached
    /\ reads = 0
    /\ rendered = FALSE
    /\ df = <<>>
    /\ metrics = KpiMetrics(<<>>)
    /\ region = All
    /\ employment = All
    /\ risk = All
    /\ region_options = <<All>>
    /\ employment_options = <<All>>
    /\ risk_options = <<All>>
    /\ filtered_df = <<>>
    /\ fraud_by_channel = <<>>
    /\ fraud_by_device = <<>>
    /\ corr = Corr(<<>>)
    /\ charts = <<>>

Init == InitWith(Files(FilterRows, MaxRowsWide))
InitMetrics == InitWith(Files(MetricRows, MaxRowsWide))
InitLabels == InitWith(Files(LabelRows, MaxRows))
InitGroup == InitWith(Files(GroupFileRows, MaxRows))
InitCorr == InitWith(Files(CorrFileRows, MaxRows))

Spec == Init /\ [][Next]_vars
SpecMetrics == InitMetrics /\ [][Next]_vars
SpecLabels == InitLabels /\ [][Next]_vars
SpecGroup == InitGroup /\ [][Next]_vars
SpecCorr == InitCorr /\ [][Next]_vars

(***************************************************************************)
(* Properties.                                                             *)
(***************************************************************************)
One == [num |-> 1, den |-> 1]

LabelFields == {"target_label", "delinquency_label"}

\* The position in the file of the row with this application_id.
Position(id) == CHOOSE i \in DOMAIN AppIds : AppIds[i] = id

\* The row meets every restriction of the current selection.
Matches(row) ==
    /\ region = All \/ row.region = region
    /\ employment = All \/ row.employment_type = employment
    /\ risk = All \/ row.risk_grade = risk

\* How many selectboxes are set to something other than "All".
Restricted == Cardinality({w \in Widgets : Value(w) # All})

\* C1: the filtered dataset is exactly the rows of df that equal the selected
\* value in every restricted dimension, in their original relative order.
C1_FilterExact ==
    rendered =>
        /\ \A i \in DOMAIN df :
              Matches(df[i]) <=> \E j \in DOMAIN filtered_df : filtered_df[j] = df[i]
        /\ \A j \in DOMAIN filtered_df : \E i \in DOMAIN df : df[i] = filtered_df[j]
        /\ \A j, k \in DOMAIN filtered_df :
              j < k => Position(filtered_df[j].application_id)
                         < Position(filtered_df[k].application_id)

\* Two dimensions restricted; a row is retained and a row is excluded.
C1_Witness ==
    /\ rendered
    /\ region # All
    /\ employment # All
    /\ filtered_df # <<>>
    /\ Len(filtered_df) < Len(df)

\* C2 as stated: the four metrics shown are computed over the filtered
\* dataset of the current selection.
C2_MetricsOverFiltered ==
    rendered =>
        /\ metrics.approval_rate = OneMinus(Mean(Column(filtered_df, "target")))
        /\ metrics.fraud_rate = Mean(Column(filtered_df, "fraud_flag"))
        /\ metrics.avg_income = Mean(Column(filtered_df, "monthly_income"))
        /\ metrics.avg_utilization = Mean(Column(filtered_df, "utilization_ratio"))

\* C3 as stated: with an empty filtered dataset the metrics are all undefined,
\* the grouped fraud rates are empty and all twelve figures are produced.
C3_EmptyDegrades ==
    (rendered /\ filtered_df = <<>>) =>
        /\ IsNaN(metrics.approval_rate)
        /\ IsNaN(metrics.fraud_rate)
        /\ IsNaN(metrics.avg_income)
        /\ IsNaN(metrics.avg_utilization)
        /\ fraud_by_channel = <<>>
        /\ fraud_by_device = <<>>
        /\ Len(charts) = 12

\* opts is "All" followed by the distinct non-missing values of the field in
\* the whole file, in ascending order.
Offers(opts, field) ==
    /\ Len(opts) >= 1
    /\ opts[1] = All
    /\ \A i \in 2..Len(opts) :
          /\ opts[i] # Null
          /\ \E n \in DOMAIN file : file[n][field] = opts[i]
    /\ \A n \in DOMAIN file :
          file[n][field] # Null => \E i \in 2..Len(opts) : opts[i] = file[n][field]
    /\ \A i, j \in 2..Len(opts) : i < j => Rank(opts[i]) < Rank(opts[j])

\* C4: in every render pass each selectbox offers "All" and then the sorted
\* distinct non-missing values of its field in the full dataset, whatever the
\* current selection is.
C4_OptionsFromFullData ==
    rendered =>
        /\ Offers(region_options, "region")
        /\ Offers(employment_options, "employment_type")
        /\ Offers(risk_options, "risk_grade")

\* A selection that excludes a row, in a file with a missing region, while
\* the restricted selectbox still offers both employment types.
C4_Witness ==
    /\ rendered
    /\ employment # All
    /\ Len(filtered_df) < Len(df)
    /\ Len(employment_options) = 3
    /\ \E n \in DOMAIN file : file[n].region = Null

\* g holds one entry per distinct non-missing value of column by in the
\* filtered dataset, in ascending key order, each rate the mean of fraud_flag
\* over the group's rows and within [0, 1].
GroupedRates(g, by) ==
    /\ {g[j].key : j \in DOMAIN g}
         = {filtered_df[i][by] : i \in DOMAIN filtered_df} \ {Null}
    /\ \A j, k \in DOMAIN g : j < k => Rank(g[j].key) < Rank(g[k].key)
    /\ \A j \in DOMAIN g :
          LET rows  == {i \in DOMAIN filtered_df : filtered_df[i][by] = g[j].key}
              fraud == {i \in rows : filtered_df[i].fraud_flag = 1}
          IN  /\ g[j].rate.den > 0
              /\ g[j].rate.num * Cardinality(rows)
                   = Cardinality(fraud) * g[j].rate.den
              /\ 0 <= g[j].rate.num
              /\ g[j].rate.num <= g[j].rate.den

\* C5: over the filtered dataset, the fraud rates grouped by
\* application_channel and by device_type hold exactly one entry per distinct
\* non-missing group value present (none for an absent group), in ascending
\* key order, each rate the group's mean of fraud_flag and within [0, 1].
C5_GroupedRates ==
    rendered =>
        /\ GroupedRates(fraud_by_channel, "application_channel")
        /\ GroupedRates(fraud_by_device, "device_type")

\* A region is selected; two channels are present out of order in the data,
\* one of them with a fraud rate of one half, and a device is missing.
C5_Witness ==
    /\ rendered
    /\ region # All
    /\ Len(fraud_by_channel) = 2
    /\ fraud_by_channel[2].rate = [num |-> 1, den |-> 2]
    /\ Len(fraud_by_device) = 1
    /\ filtered_df[1].application_channel = "Online"

\* C6: the file is read at most once; once a pass has run it has been read
\* exactly once, however many passes follow.
C6_ReadOnce == reads <= 1 /\ (rendered => reads = 1)

\* A pass after the first one (the first pass runs with every selectbox at
\* "All"), and the file read once.
C6_Witness == rendered /\ region # All /\ employment # All /\ reads = 1

\* C7 as stated: after a pass the frame the script loaded is what was loaded,
\* with no row or field added, removed or altered.
C7_LoadedNeverModified == rendered => df = cache.value

\* C7 amended: the stored dataset stays the file's rows; the script's df gains
\* the two label fields and is otherwise the stored dataset, row by row, also
\* after the filters are applied.
C7_OnlyLabelsAdded ==
    rendered =>
        /\ cache.value = file
        /\ Len(df) = Len(file)
        /\ \A i \in DOMAIN df :
              /\ DOMAIN df[i] = DOMAIN file[i] \cup LabelFields
              /\ \A f \in DOMAIN file[i] : df[i][f] = file[i][f]

\* A later pass whose filters exclude a row of a non-empty df.
C7_Witness ==
    /\ rendered
    /\ region # All
    /\ Len(filtered_df) < Len(df)
    /\ \E i \in DOMAIN df : df[i].region = Null

\* The labels of a row are those the claim names, with the given text for
\* target = 1.
LabelledAs(row, rejected) ==
    /\ row.target = 0 => row.target_label = "Approved"
    /\ row.target = 1 => row.target_label = rejected
    /\ row.recent_delinquency_flag = 0 => row.delinquency_label = "No"
    /\ row.recent_delinquency_flag = 1 => row.delinquency_label = "Yes"

\* Every row of the filtered dataset carries the labels its row of df has.
SameLabelsAsDf ==
    \A j \in DOMAIN filtered_df :
        \E i \in DOMAIN df :
            /\ df[i].application_id = filtered_df[j].application_id
            /\ df[i].target_label = filtered_df[j].target_label
            /\ df[i].delinquency_label = filtered_df[j].delinquency_label

\* C8 as stated: target = 1 is labelled "Rejected or Default".
C8_LabelsAsStated ==
    rendered =>
        /\ \A i \in DOMAIN df : LabelledAs(df[i], "Rejected or Default")
        /\ \A j \in DOMAIN filtered_df :
              LabelledAs(filtered_df[j], "Rejected or Default")
        /\ SameLabelsAsDf

\* C8 amended: target = 1 is labelled "Rejected/Default"; the rest as stated.
C8_Labels ==
    rendered =>
        /\ \A i \in DOMAIN df : LabelledAs(df[i], "Rejected/Default")
        /\ \A j \in DOMAIN filtered_df :
              LabelledAs(filtered_df[j], "Rejected/Default")
        /\ SameLabelsAsDf

\* A filtered dataset that excludes a row and retains a rejected applicant
\* with a recent delinquency and one whose two flags differ.
C8_Witness ==
    /\ rendered
    /\ region # All
    /\ Len(filtered_df) < Len(df)
    /\ \E j \in DOMAIN filtered_df :
          filtered_df[j].target = 1 /\ filtered_df[j].recent_delinquency_flag = 0
    /\ \E j \in DOMAIN filtered_df :
          filtered_df[j].target = 0 /\ filtered_df[j].recent_delinquency_flag = 1

Numeric == Range(NumericFields)

\* The values a numeric field takes over the filtered rows.
ValuesOf(x) == {filtered_df[i][x] : i \in DOMAIN filtered_df}

\* C9 as stated: the matrix is symmetric and every diagonal entry is 1.0,
\* also for a constant field and for fewer than two rows.
C9_SymmetricUnitDiagonal ==
    rendered =>
        /\ \A x, y \in Numeric : corr[x][y] = corr[y][x]
        /\ \A x \in Numeric : corr[x][x] = One

\* C9 amended: the matrix is square over the numeric fields and symmetric
\* (two mirrored entries are both undefined or the same number); a diagonal
\* entry is 1.0 when its field takes two or more values over the filtered
\* rows, and undefined when the field is constant there or there are fewer
\* than two rows.
C9_SymmetricDiagonal ==
    rendered =>
        /\ DOMAIN corr = Numeric
        /\ \A x \in Numeric : DOMAIN corr[x] = Numeric
        /\ \A x, y \in Numeric : corr[x][y] = corr[y][x]
        /\ \A x \in Numeric :
              corr[x][x] = IF Cardinality(ValuesOf(x)) >= 2 THEN One ELSE NaN

\* A region is selected and a row excluded; over the two or more rows left
\* target varies and monthly_income is constant.
C9_Witness ==
    /\ rendered
    /\ region # All
    /\ Len(filtered_df) < Len(df)
    /\ Len(filtered_df) >= 2
    /\ corr["target"]["target"] = One
    /\ corr["monthly_income"]["monthly_income"] = NaN
    /\ corr["target"]["monthly_income"] = corr["monthly_income"]["target"]

\* C10: an empty filtered dataset needs two restricted dimensions, or an
\* empty dataset; restricting one dimension alone leaves a row.
C10_OneRestrictionKeepsRows ==
    (rendered /\ filtered_df = <<>>) => (Restricted >= 2 \/ df = <<>>)

\* Exactly one dimension restricted: a row is kept and a row is dropped.
C10_Witness ==
    /\ rendered
    /\ Restricted = 1
    /\ filtered_df # <<>>
    /\ Len(filtered_df) < Len(df)

====
